---- MODULE Spec2Model ----
(***************************************************************************)
(* Conversation memory store of fklc: SQLChatMemory (sql_memory.py) over   *)
(* the chat_history table, the message classes, the prompt template that   *)
(* reads the store (prompt_template.py) and the ChatOpenAI client          *)
(* (openai_client.py).                                                     *)
(*                                                                         *)
(* The serial specifications have one action per public method.  Every     *)
(* action records the call, the exception it raised (or "None"), the value *)
(* it returned, the list the query fetched, the table as it was before the *)
(* call and what became of the session the call created.  The concurrent   *)
(* specification runs the appends and the blocking reads of two callers    *)
(* one database round trip at a time.                                      *)
(***************************************************************************)
EXTENDS Integers, Sequences, FiniteSets, TLC

VARIABLES
    scopes,          \* the scopes the callers of this run use
    items,           \* the objects the callers of this run pass as messages
    prompts,         \* the templates and keyword values the callers format
    query_ok,        \* the answers the database gives a SELECT: TRUE, or
                     \* FALSE when it fails the statement
    use_local_llm,   \* self.use_local_llm: the USE_LOCAL_LLM setting at __init__
    dialect,         \* database the connection URLs name: "sqlite_memory"
                     \* (sqlite:///:memory:), "sqlite_file" or "mysql"
    SyncSession,     \* self.SyncSession is set (a sessionmaker), else None
    AsyncSession,    \* self.AsyncSession is set, else None
    chat_history,    \* committed rows of table chat_history, in insertion order
    auto_increment,  \* last id the table's autoincrement counter handed out
    clock,           \* value datetime.utcnow yields, at the column's resolution
    call,            \* the call that ran last: [op, scope, messages, max_tokens]
    raised,          \* exception the call raised, "None" when it returned
    returned,        \* list the call returned (<<>> for the calls returning None)
    history,         \* rows the call's query fetched, in the order fetched
    before,          \* chat_history as it was when the call started
    session,         \* the session the call created: "none", "open", "closed"
    prompt,          \* template and keyword arguments of a format_messages call
    llm,             \* the ChatOpenAI call under way or made last
    tx,              \* per caller, the store call it has under way or made last
    chain            \* chain.py: the statement it stands at and what it holds

vars == <<scopes, items, prompts, query_ok, use_local_llm, dialect, SyncSession, AsyncSession, chat_history,
          auto_increment, clock, call, raised, returned, history, before,
          session, prompt, llm, tx, chain>>

----------------------------------------------------------------------------
(* Bounds of the model. *)

MaxId == 3          \* ids the autoincrement counter may hand out
MaxClock == 1       \* ticks of the clock
MaxBatch == 2       \* longest list given to add_messages
MaxBudget == 3      \* largest max_tokens given to a token-limited read
MaxChunks == 2      \* most chunks a streamed completion is made of

(* Inputs. *)

Scope(u, o, s) == [user_id |-> u, orgn_id |-> o, session_id |-> s]

\* Pairs of scopes that differ in exactly one component.
ScopePairs ==
    { {Scope("u1", "o1", "s1"), Scope("u2", "o1", "s1")},
      {Scope("u1", "o1", "s1"), Scope("u1", "o2", "s1")},
      {Scope("u1", "o1", "s1"), Scope("u1", "o1", "s2")} }

NoScope == Scope("", "", "")

Budgets == (0 - 1) .. MaxBudget

Unset == 0 - 1      \* a column the ORM object has not been given (None)

----------------------------------------------------------------------------
(* Message classes. *)

\* An argument that is no message object at all (a plain str).
NotAMessage == [cls |-> "str", content |-> "a", role |-> "None"]

\* self.role as the constructors leave it.
RoleOf(cls) ==
    CASE cls = "HumanMessage" -> "user"
      [] cls = "AIMessage"    -> "assistant"
      [] OTHER                -> "None"

Message(cls, content) == [cls |-> cls, content |-> content, role |-> RoleOf(cls)]

\* What the callers of the main specification pass as messages: an empty
\* and a two-token message, a BaseMessage (its role stays None) and a str.
Items ==
    { Message("HumanMessage", ""), Message("AIMessage", "a b"),
      Message("BaseMessage", "a"), NotAMessage }

to_chat_history(message, user_id, orgn_id, session_id) ==
    [ id         |-> Unset,
      user_id    |-> user_id,
      orgn_id    |-> orgn_id,
      session_id |-> session_id,
      role       |-> message.role,
      content    |-> message.content,
      timestamp  |-> Unset ]

----------------------------------------------------------------------------
(* Token counter, for the texts the callers of the model store.           *)

\* tiktoken.get_encoding("cl100k_base").encode(text), as a list of tokens.
cl100k_base_encode(text) ==
    CASE text = ""    -> <<>>
      [] text = "a"   -> <<"a">>
      [] text = "a b" -> <<"a", " b">>
      [] text = "q"   -> <<"q">>
      [] text = "hi"  -> <<"hi">>

\* AutoTokenizer.from_pretrained("meta-llama/Meta-Llama-3-8B").tokenize(text):
\* the byte-level pieces (a leading space is written _ here), without the
\* begin-of-text token.
llama3_tokenize(text) ==
    CASE text = ""    -> <<>>
      [] text = "a"   -> <<"a">>
      [] text = "a b" -> <<"a", "_b">>
      [] text = "q"   -> <<"q">>
      [] text = "hi"  -> <<"hi">>

_count_tokens(text) ==
    IF use_local_llm THEN Len(llama3_tokenize(text))
    ELSE Len(cl100k_base_encode(text))

----------------------------------------------------------------------------
(* The table and one session's transaction. *)

RECURSIVE MaxRowId(_)
MaxRowId(table) ==
    IF table = <<>> THEN 0
    ELSE LET m == MaxRowId(Tail(table))
         IN  IF Head(table).id > m THEN Head(table).id ELSE m

\* The URLs of config.py: Config names SQLite's in-memory database, the
\* other configurations a MySQL server; db_url may as well name an SQLite
\* database file.
SQLite == dialect \in {"sqlite_memory", "sqlite_file"}

\* id = Column(Integer, primary_key=True, autoincrement=True): SQLite hands
\* out the largest rowid of the table plus one, MySQL the next value of a
\* counter that neither a DELETE nor a ROLLBACK takes back.
NextRowId(table, counter) ==
    IF SQLite THEN MaxRowId(table) + 1 ELSE counter + 1

\* The NOT NULL columns of ChatHistory.
NotNullOk(entry) == entry.role # "None" /\ entry.content # "None"

\* What the database and the clock give one session.commit() of n pending
\* rows: refused is 0 when every statement is carried out, i in 1..n when
\* the i-th INSERT is refused (server unreachable, connection lost, lock
\* wait timeout) and n + 1 when the INSERTs are carried out and the COMMIT
\* is refused; nows[i] is what datetime.utcnow yields, at the column's
\* resolution, when the default of row i is evaluated.
Answers(n) ==
    { [refused |-> k, nows |-> s] :
        k \in 0..(n + 1),
        s \in { t \in [1..n -> clock..MaxClock] :
                   /\ n > 0 => t[1] = clock
                   /\ \A i \in 1..n, j \in 1..n : i <= j => t[i] <= t[j] } }

\* session.commit() flushes the pending objects in the order of session.add:
\* each INSERT evaluates the timestamp default and takes the next id; the
\* first INSERT the server refuses ends the flush with an OperationalError,
\* the first row the table refuses with an IntegrityError.  A refused
\* INSERT takes no id.
RECURSIVE Flush(_, _, _, _, _)
Flush(table, counter, pending, db, i) ==
    IF i > Len(pending)
    THEN [error |-> "None", table |-> table, counter |-> counter,
          clock |-> IF i = 1 THEN clock ELSE db.nows[i - 1]]
    ELSE IF db.refused = i
    THEN [error |-> "OperationalError", table |-> table, counter |-> counter,
          clock |-> db.nows[i]]
    ELSE IF ~NotNullOk(pending[i])
    THEN [error |-> "IntegrityError", table |-> table, counter |-> counter,
          clock |-> db.nows[i]]
    ELSE LET id  == NextRowId(table, counter)
             row == [pending[i] EXCEPT !.id = id, !.timestamp = db.nows[i]]
         IN  Flush(Append(table, row),
                   IF SQLite THEN counter ELSE id,
                   pending, db, i + 1)

\* session.commit(): the flush, then COMMIT.  A failed flush or a refused
\* COMMIT leaves the committed table as it was (the transaction is rolled
\* back); the ids the carried-out INSERTs took stay taken on MySQL.
Commit(pending, db) ==
    LET f == Flush(chat_history, auto_increment, pending, db, 1)
    IN  IF f.error # "None" THEN [f EXCEPT !.table = chat_history]
        ELSE IF db.refused = Len(pending) + 1
        THEN [f EXCEPT !.error = "OperationalError", !.table = chat_history]
        ELSE f

\* The loop of add_messages: to_chat_history and session.add per message; an
\* argument without to_chat_history raises AttributeError where it stands.
RECURSIVE AddAll(_, _, _)
AddAll(messages, scope, pending) ==
    IF messages = <<>> THEN [error |-> "None", pending |-> pending]
    ELSE IF Head(messages).cls = "str"
    THEN [error |-> "AttributeError", pending |-> pending]
    ELSE AddAll(Tail(messages), scope,
                Append(pending,
                       to_chat_history(Head(messages), scope.user_id,
                                       scope.orgn_id, scope.session_id)))

\* add_messages with each message committed as it is added.
AddMessagesEachCommitted(messages, scope, db) ==
    LET a == AddAll(messages, scope, <<>>)
        f == Flush(chat_history, auto_increment, a.pending, db, 1)
    IN  [error   |-> IF a.error # "None" THEN a.error
                     ELSE IF f.error # "None" THEN f.error
                     ELSE IF db.refused = Len(a.pending) + 1
                     THEN "OperationalError" ELSE "None",
         table   |-> f.table,
         counter |-> f.counter,
         clock   |-> f.clock]

\* try: add all, commit / except: rollback, raise e.
AddMessagesOutcome(messages, scope, db) ==
    LET a == AddAll(messages, scope, <<>>)
    IN  IF a.error # "None"
        THEN [error |-> a.error, table |-> chat_history,
              counter |-> auto_increment, clock |-> clock]
        ELSE Commit(a.pending, db)

----------------------------------------------------------------------------
(* Queries. *)

\* filter_by without session_id.
filter_by_user_orgn(table, user_id, orgn_id, session_id) ==
    SelectSeq(table, LAMBDA r : r.user_id = user_id /\ r.orgn_id = orgn_id)

\* filter_by(user_id=..., orgn_id=..., session_id=...)
filter_by(table, user_id, orgn_id, session_id) ==
    SelectSeq(table, LAMBDA r : /\ r.user_id = user_id
                                /\ r.orgn_id = orgn_id
                                /\ r.session_id = session_id)

\* The rows of a scope, in insertion order.
RowsOf(table, scope) ==
    filter_by(table, scope.user_id, scope.orgn_id, scope.session_id)

IndexOrders(n) ==
    { p \in [1..n -> 1..n] : \A i, j \in 1..n : i # j => p[i] # p[j] }

\* .order_by(ChatHistory.timestamp.asc()).all(): every list of the rows in
\* which the timestamps ascend.  ORDER BY names the timestamp alone, so the
\* database is free in the order of rows with equal timestamps.
order_by_timestamp(rows) ==
    { [i \in 1..Len(rows) |-> rows[p[i]]] : p \in
        { q \in IndexOrders(Len(rows)) :
            \A i, j \in 1..Len(rows) :
                i < j => rows[q[i]].timestamp <= rows[q[j]].timestamp } }

\* [{"role": record.role, "content": record.content} for record in history]
Dicts(records) ==
    [i \in 1..Len(records) |->
        [role |-> records[i].role, content |-> records[i].content]]

\* The token loop with the boundary record left out (>= for >).
RECURSIVE LimitLoopExclusive(_, _, _, _)
LimitLoopExclusive(records, total_tokens, limited_messages, max_tokens) ==
    IF records = <<>> THEN limited_messages
    ELSE LET content_tokens == _count_tokens(Head(records).content)
         IN  IF total_tokens + content_tokens >= max_tokens
             THEN limited_messages
             ELSE LimitLoopExclusive(Tail(records), total_tokens + content_tokens,
                            Append(limited_messages,
                                   [role    |-> Head(records).role,
                                    content |-> Head(records).content]),
                            max_tokens)

\* The token loop of get_messages_with_token_limit.
RECURSIVE LimitLoop(_, _, _, _)
LimitLoop(records, total_tokens, limited_messages, max_tokens) ==
    IF records = <<>> THEN limited_messages
    ELSE LET content_tokens == _count_tokens(Head(records).content)
         IN  IF total_tokens + content_tokens > max_tokens
             THEN limited_messages
             ELSE LimitLoop(Tail(records), total_tokens + content_tokens,
                            Append(limited_messages,
                                   [role    |-> Head(records).role,
                                    content |-> Head(records).content]),
                            max_tokens)

Reverse(seq) == [i \in 1..Len(seq) |-> seq[Len(seq) + 1 - i]]

\* The newest records within the budget, oldest first.
limited_newest(records, max_tokens) ==
    Reverse(LimitLoop(Reverse(records), 0, <<>>, max_tokens))

limited(records, max_tokens) == LimitLoop(records, 0, <<>>, max_tokens)

----------------------------------------------------------------------------
(* Prompt template.  A template message is a (role, template) tuple or a    *)
(* plain str, which is rendered as a user message.                         *)

\* chain.py's template: a system entry with one variable, then the question.
TemplateMessages ==
    << [type |-> "tuple", role |-> "system", template |-> "answer in {country}"],
       [type |-> "tuple", role |-> "user",   template |-> "q"] >>

\* The message lists the templates of a run are built with.
Templates ==
    { TemplateMessages,
      << [type |-> "str", role |-> "", template |-> "answer in {country}"] >> }

\* A keyword value that is a (function, argument) tuple, as str() shows it.
Dynamic == "(<built-in function len>, 'jp')"

\* The values given for the template variable country.
Countries == {"jp", Dynamic}

Prompt(messages, memory, country) ==
    [messages |-> messages, memory |-> memory, country |-> country]

\* chain.py: its template with chat_memory attached, country given as a str.
ChainPrompt == Prompt(TemplateMessages, TRUE, "jp")

Prompts == { Prompt(m, b, c) : m \in Templates, b \in BOOLEAN, c \in Countries }

\* An operation that is no format_messages call.
NoPrompt == Prompt(<<>>, FALSE, "")

\* template.format(**kwargs)
Format(template, country) ==
    IF template = "answer in {country}" THEN "answer in " \o country ELSE template

\* The loop over self.messages with plain keyword values.
Rendered(messages, country) ==
    [i \in 1..Len(messages) |->
        [role    |-> IF messages[i].type = "str" THEN "user"
                     ELSE messages[i].role,
         content |-> Format(messages[i].template, country)]]

\* value(*args), for a tuple value under a tuple entry: args is no name of
\* the function, so the lookup raises NameError.
RenderError(messages, country) ==
    IF country = Dynamic /\ \E i \in 1..Len(messages) : messages[i].type = "tuple"
    THEN "NameError"
    ELSE "None"

----------------------------------------------------------------------------
(* ChatOpenAI (openai_client.py): what the OpenAI client answers a call.   *)

\* str(e) of the exceptions chat.completions.create and the stream raise.
Causes == {"Request timed out."}

\* str(e) of choices[0] on a response without choices.
IndexErrorText == "list index out of range"

\* str(e) of delta.get on a delta object that has no method get.
NoGetText == "'ChoiceDelta' object has no attribute 'get'"

\* A streamed chunk: a delta with content (a sequence of characters, empty
\* for None or ''), a chunk without choices, or the stream raising.
Delta(content) == [kind |-> "delta", content |-> content, cause |-> "None"]

Chunks ==
    { Delta(<<>>), Delta(<<"a">>), Delta(<<"b", "c">>),
      [kind |-> "no_choices", content |-> <<>>, cause |-> IndexErrorText] }
    \cup { [kind |-> "error", content |-> <<>>, cause |-> c] : c \in Causes }

Streams == UNION { [1..n -> Chunks] : n \in 0..MaxChunks }

\* A completion: its choices are empty, or choices[0].message.content.
Completions == {"no_choices", "None", "hi"}

LLMOps ==
    {"generate_response", "stream_response", "async_generate_response",
     "async_stream_response"}

\* The text each method puts before the cause.
Prefix(op) ==
    CASE op = "generate_response"       -> "Failed to generate response: "
      [] op = "stream_response"         -> "Failed to stream response: "
      [] op = "async_generate_response" -> "Failed to generate async response: "
      [] op = "async_stream_response"   -> "Failed to stream async response: "

\* A call of method op: create_error is what create raises ("None" when it
\* answers), completion and stream what it answers, get whether the delta
\* objects of the installed client have a method get.
LLMCall(op, create_error, completion, stream, get) ==
    [ op           |-> op,
      pc           |-> "created",
      create_error |-> create_error,
      completion   |-> completion,
      stream       |-> stream,
      get          |-> get,
      chunk        |-> 0,        \* chunks taken from the stream
      content      |-> <<>>,     \* characters of the chunk not yet yielded
      yielded      |-> <<>>,     \* characters the caller has received
      attempts     |-> 0,        \* calls of chat.completions.create
      raised       |-> "None",
      message      |-> "",
      returned     |-> "" ]

NoLLMCall == LLMCall("__init__", "None", "None", <<>>, TRUE)

----------------------------------------------------------------------------
(* Callers that run store methods at the same time (threads for the        *)
(* blocking methods, tasks for the non-blocking ones).                     *)

Workers == {"w1", "w2"}

\* A store call of one caller.  pc is the round trip the call is waiting at
\* ("insert", "commit", "select") or "done"; inserted the rows its
\* transaction has written, persisted whether its COMMIT was executed.
Tx(op, pc, scope, messages, max_tokens) ==
    [ op         |-> op,
      pc         |-> pc,
      scope      |-> scope,
      messages   |-> messages,
      max_tokens |-> max_tokens,
      inserted   |-> <<>>,
      persisted  |-> FALSE,
      session    |-> "open",
      raised     |-> "None",
      returned   |-> <<>>,
      fetched    |-> <<>>,
      overlap    |-> FALSE,      \* a read that ran while another session
                                 \* had uncommitted rows of its scope
      locked     |-> FALSE,      \* an INSERT that met the write lock of
                                 \* another session's open transaction
      at         |-> "" ]        \* where the call stood when it ended

NoTx == [Tx("__init__", "done", NoScope, <<>>, 0) EXCEPT !.session = "none"]

----------------------------------------------------------------------------
(* chain.py: one exchange is one run of the script, statement by statement. *)

\* The statement the script stands at (or "done" after its last one, or
\* "failed" after the traceback of an uncaught exception, raised by the
\* statement failed_at), the table when the run started, and the values
\* of formatted_messages and response.
Script(pc, failed_at, start, formatted_messages, response) ==
    [pc |-> pc, failed_at |-> failed_at, start |-> start,
     formatted_messages |-> formatted_messages, response |-> response]

----------------------------------------------------------------------------
(* Initial state: SQLChatMemory.__init__ with each of db_url and            *)
(* async_db_url given or not, on an empty table.                           *)

Call(op, scope, messages, max_tokens) ==
    [op |-> op, scope |-> scope, messages |-> messages, max_tokens |-> max_tokens]

\* The store right after __init__, on an empty table.
Constructed ==
    /\ chat_history = <<>>
    /\ auto_increment = 0
    /\ clock = 0
    /\ call = Call("__init__", NoScope, <<>>, 0)
    /\ raised = "None"
    /\ returned = <<>>
    /\ history = <<>>
    /\ before = <<>>
    /\ session = "none"
    /\ prompt = NoPrompt
    /\ llm = NoLLMCall
    /\ tx = [w \in Workers |-> NoTx]
    /\ chain = Script("format_messages", "None", <<>>, <<>>, "None")

\* One scope, every kind of message, each of the four constructions.
Init ==
    /\ scopes = {Scope("u1", "o1", "s1")}
    /\ items = Items
    /\ prompts = {ChainPrompt}
    /\ query_ok = {TRUE}
    /\ use_local_llm \in BOOLEAN
    /\ SyncSession \in BOOLEAN
    /\ AsyncSession \in BOOLEAN
    /\ dialect \in {"sqlite_memory", "mysql"}
    /\ Constructed

\* Two scopes that differ in one component, one message, db_url given.
ScopesInit ==
    /\ scopes \in ScopePairs
    /\ items = {Message("HumanMessage", "a")}
    /\ prompts = {ChainPrompt}
    /\ query_ok = {TRUE}
    /\ use_local_llm = FALSE
    /\ SyncSession = TRUE
    /\ AsyncSession \in BOOLEAN
    /\ dialect \in {"sqlite_memory", "mysql"}
    /\ Constructed

\* One scope, one message, every template with and without a memory, and a
\* database that may fail a SELECT.
PromptsInit ==
    /\ scopes = {Scope("u1", "o1", "s1")}
    /\ items = {Message("AIMessage", "a b")}
    /\ prompts = Prompts
    /\ query_ok = BOOLEAN
    /\ use_local_llm \in BOOLEAN
    /\ SyncSession = TRUE
    /\ AsyncSession = FALSE
    /\ dialect \in {"sqlite_memory", "mysql"}
    /\ Constructed

Batches == UNION { [1..n -> items] : n \in 1..MaxBatch }

\* The ids an append of n rows would take stay within the bound.
IdsLeft(n) == NextRowId(chat_history, auto_increment) + n - 1 <= MaxId

Fixed ==
    UNCHANGED <<scopes, items, prompts, query_ok, use_local_llm, dialect, SyncSession,
                AsyncSession, llm, tx, chain>>

\* A call that raises before it touches the database.
Raises(op, scope, messages, max_tokens, error) ==
    /\ call' = Call(op, scope, messages, max_tokens)
    /\ raised' = error
    /\ returned' = <<>>
    /\ history' = <<>>
    /\ before' = chat_history
    /\ UNCHANGED <<chat_history, auto_increment, clock>>
    /\ Fixed

\* A write: the outcome of its commit becomes the table.
Writes(op, scope, messages, outcome) ==
    /\ call' = Call(op, scope, messages, 0)
    /\ raised' = outcome.error
    /\ returned' = <<>>
    /\ history' = <<>>
    /\ before' = chat_history
    /\ chat_history' = outcome.table
    /\ auto_increment' = outcome.counter
    /\ clock' = outcome.clock
    /\ Fixed

\* A read: fetched is the list the query gave, result the value returned.
Reads(op, scope, max_tokens, fetched, result) ==
    /\ call' = Call(op, scope, <<>>, max_tokens)
    /\ raised' = "None"
    /\ returned' = result
    /\ history' = fetched
    /\ before' = chat_history
    /\ UNCHANGED <<chat_history, auto_increment, clock>>
    /\ Fixed

\* What the call leaves of its session, for a call that is no format_messages.
Ends(state) == session' = state /\ prompt' = NoPrompt

\* A session closed by the statement that follows the work.
ClosedOnReturn(error) == IF error = "None" THEN "closed" ELSE "open"

Tick ==
    /\ clock < MaxClock
    /\ clock' = clock + 1
    /\ UNCHANGED <<scopes, items, prompts, query_ok, use_local_llm, dialect, SyncSession,
                   AsyncSession, chat_history, auto_increment, call, raised, returned,
                   history, before, session, prompt, llm, tx, chain>>

----------------------------------------------------------------------------
(* Engines created after __init__.  db_url and async_db_url name the       *)
(* database of the run, the one the other engine and __init__ use; the     *)
(* in-memory URL of SQLite names a new, empty database in every engine.    *)

\* What a create_..._engine call leaves besides the session factory.
Configures(op, error) ==
    /\ call' = Call(op, NoScope, <<>>, 0)
    /\ raised' = error
    /\ returned' = <<>>
    /\ history' = <<>>
    /\ before' = chat_history
    /\ session' = "none"
    /\ prompt' = NoPrompt
    /\ UNCHANGED <<scopes, items, prompts, query_ok, use_local_llm, dialect,
                   clock, llm, tx, chain>>

\* create_engine, create_all (CREATE TABLE IF NOT EXISTS, which keeps the
\* rows of a table that exists), then self.SyncSession = sessionmaker(...);
\* a database that refuses create_all's connection leaves SyncSession, and
\* with it the engine the sessions use, as it was.  The engine of
\* sqlite:///:memory: opens a database of its own, empty but for the table
\* create_all makes, and the database of the engine it replaces is gone.
create_sync_engine ==
    \E db_ok \in BOOLEAN :
        /\ Configures("create_sync_engine",
                      IF db_ok THEN "None" ELSE "OperationalError")
        /\ SyncSession' = (db_ok \/ SyncSession)
        /\ chat_history' = IF db_ok /\ dialect = "sqlite_memory"
                           THEN <<>> ELSE chat_history
        /\ auto_increment' = IF db_ok /\ dialect = "sqlite_memory"
                             THEN 0 ELSE auto_increment
        /\ UNCHANGED AsyncSession

\* create_async_engine connects to nothing; self.AsyncSession =
\* sessionmaker(...).
create_async_engine ==
    /\ Configures("create_async_engine", "None")
    /\ AsyncSession' = TRUE
    /\ UNCHANGED <<SyncSession, chat_history, auto_increment>>

----------------------------------------------------------------------------
(* Blocking methods. *)

\* add, commit: no try around them, so whatever they raise reaches the caller.
AddMessageOutcome(message, scope, db) ==
    IF message.cls = "str"
    THEN [error |-> "AttributeError", table |-> chat_history,
          counter |-> auto_increment, clock |-> clock]
    ELSE Commit(<<to_chat_history(message, scope.user_id, scope.orgn_id,
                                  scope.session_id)>>, db)

\* DELETE FROM chat_history WHERE user_id = ... AND orgn_id = ... AND
\* session_id = ...
delete(table, user_id, orgn_id, session_id) ==
    SelectSeq(table, LAMBDA r : ~(/\ r.user_id = user_id
                                  /\ r.orgn_id = orgn_id
                                  /\ r.session_id = session_id))

\* clear_history whose DELETE is never committed.
ClearNotCommitted(scope, db_ok) ==
    [error |-> IF db_ok THEN "None" ELSE "OperationalError",
     table |-> chat_history, counter |-> auto_increment, clock |-> clock]

\* query(...).filter_by(...).delete(), commit.
ClearOutcome(scope, db_ok) ==
    IF ~db_ok
    THEN [error |-> "OperationalError", table |-> chat_history,
          counter |-> auto_increment, clock |-> clock]
    ELSE [error |-> "None",
          table |-> delete(chat_history, scope.user_id, scope.orgn_id,
                           scope.session_id),
          counter |-> auto_increment, clock |-> clock]

\* add_message that goes to the async engine when there is no sync one.
add_message_fallback ==
    \E message \in items, scope \in scopes, db \in Answers(1) :
        IF ~SyncSession /\ ~AsyncSession
        THEN Raises("add_message", scope, <<message>>, 0, "ValueError")
             /\ Ends("none")
        ELSE /\ IdsLeft(1)
             /\ Writes("add_message", scope, <<message>>,
                       AddMessageOutcome(message, scope, db))
             /\ Ends(ClosedOnReturn(AddMessageOutcome(message, scope, db).error))

\* session.close() is the last statement, reached only when nothing raised.
add_message ==
    \E message \in items, scope \in scopes, db \in Answers(1) :
        IF ~SyncSession
        THEN Raises("add_message", scope, <<message>>, 0, "ValueError")
             /\ Ends("none")
        ELSE /\ IdsLeft(1)
             /\ Writes("add_message", scope, <<message>>,
                       AddMessageOutcome(message, scope, db))
             /\ Ends(ClosedOnReturn(AddMessageOutcome(message, scope, db).error))

\* session.close() is in the finally clause.
add_messages ==
    \E messages \in Batches, scope \in scopes :
    \E db \in Answers(Len(messages)) :
        IF ~SyncSession
        THEN Raises("add_messages", scope, messages, 0, "ValueError")
             /\ Ends("none")
        ELSE /\ IdsLeft(Len(messages))
             /\ Writes("add_messages", scope, messages,
                       AddMessagesOutcome(messages, scope, db))
             /\ Ends("closed")

\* session.close() follows the query, reached only when the query returned.
get_history ==
    \E scope \in scopes, db_ok \in query_ok :
        IF ~SyncSession
        THEN Raises("get_history", scope, <<>>, 0, "ValueError") /\ Ends("none")
        ELSE IF ~db_ok
        THEN Raises("get_history", scope, <<>>, 0, "OperationalError")
             /\ Ends("open")
        ELSE \E fetched \in order_by_timestamp(
                    filter_by(chat_history, scope.user_id, scope.orgn_id,
                              scope.session_id)) :
                /\ Reads("get_history", scope, 0, fetched, Dicts(fetched))
                /\ Ends("closed")

get_messages_with_token_limit ==
    \E scope \in scopes, max_tokens \in Budgets, db_ok \in query_ok :
        IF ~SyncSession
        THEN Raises("get_messages_with_token_limit", scope, <<>>, max_tokens,
                    "ValueError") /\ Ends("none")
        ELSE IF ~db_ok
        THEN Raises("get_messages_with_token_limit", scope, <<>>, max_tokens,
                    "OperationalError") /\ Ends("open")
        ELSE \E fetched \in order_by_timestamp(
                    filter_by(chat_history, scope.user_id, scope.orgn_id,
                              scope.session_id)) :
                /\ Reads("get_messages_with_token_limit", scope, max_tokens,
                         fetched, limited(fetched, max_tokens))
                /\ Ends("closed")

\* session.close() follows the commit, reached only when nothing raised.
clear_history ==
    \E scope \in scopes, db_ok \in BOOLEAN :
        IF ~SyncSession
        THEN Raises("clear_history", scope, <<>>, 0, "ValueError") /\ Ends("none")
        ELSE /\ Writes("clear_history", scope, <<>>, ClearOutcome(scope, db_ok))
             /\ Ends(ClosedOnReturn(ClearOutcome(scope, db_ok).error))

----------------------------------------------------------------------------
(* Non-blocking methods.  AsyncSession has no attribute query, so the three *)
(* methods that build their statement with session.query raise             *)
(* AttributeError before any statement reaches the database.  Each body    *)
(* runs inside async with self.AsyncSession(), which closes the session on *)
(* every way out.                                                          *)

\* What the database of the asynchronous engine gives a commit of n rows:
\* create_async_engine runs no create_all, and the in-memory database its
\* engine opens is not the one of the synchronous engine, so it has no
\* chat_history table and refuses the first INSERT.
AsyncAnswers(n) ==
    IF dialect = "sqlite_memory"
    THEN { db \in Answers(n) : db.refused = 1 }
    ELSE Answers(n)

aadd_message ==
    \E message \in items, scope \in scopes, db \in AsyncAnswers(1) :
        IF ~AsyncSession
        THEN Raises("aadd_message", scope, <<message>>, 0, "ValueError")
             /\ Ends("none")
        ELSE /\ IdsLeft(1)
             /\ Writes("aadd_message", scope, <<message>>,
                       AddMessageOutcome(message, scope, db))
             /\ Ends("closed")

aadd_messages ==
    \E messages \in Batches, scope \in scopes :
    \E db \in AsyncAnswers(Len(messages)) :
        IF ~AsyncSession
        THEN Raises("aadd_messages", scope, messages, 0, "ValueError")
             /\ Ends("none")
        ELSE /\ IdsLeft(Len(messages))
             /\ Writes("aadd_messages", scope, messages,
                       AddMessagesOutcome(messages, scope, db))
             /\ Ends("closed")

aget_history ==
    \E scope \in scopes :
        IF ~AsyncSession
        THEN Raises("aget_history", scope, <<>>, 0, "ValueError") /\ Ends("none")
        ELSE Raises("aget_history", scope, <<>>, 0, "AttributeError")
             /\ Ends("closed")

aget_messages_with_token_limit ==
    \E scope \in scopes, max_tokens \in Budgets :
        IF ~AsyncSession
        THEN Raises("aget_messages_with_token_limit", scope, <<>>, max_tokens,
                    "ValueError") /\ Ends("none")
        ELSE Raises("aget_messages_with_token_limit", scope, <<>>, max_tokens,
                    "AttributeError") /\ Ends("closed")

aclear_history ==
    \E scope \in scopes :
        IF ~AsyncSession
        THEN Raises("aclear_history", scope, <<>>, 0, "ValueError") /\ Ends("none")
        ELSE Raises("aclear_history", scope, <<>>, 0, "AttributeError")
             /\ Ends("closed")

----------------------------------------------------------------------------
(* ChatPromptTemplate.format_messages: the memory's token-limited read when *)
(* a memory is attached, then the loop over the template messages.         *)

\* The template loop: what it appends to formatted_messages, or its error.
RenderOnto(op, scope, max_tokens, fetched, memory_messages, messages, country) ==
    IF RenderError(messages, country) # "None"
    THEN Raises(op, scope, <<>>, max_tokens, RenderError(messages, country))
    ELSE Reads(op, scope, max_tokens, fetched,
               memory_messages \o Rendered(messages, country))

\* format_messages that puts the template entries before the memory's.
format_messages_template_first ==
    \E scope \in scopes, max_tokens \in Budgets, p \in prompts :
    \E db_ok \in IF p.memory THEN query_ok ELSE {TRUE} :
        /\ prompt' = p
        /\ IF ~p.memory
           THEN /\ RenderOnto("format_messages", scope, max_tokens, <<>>, <<>>,
                              p.messages, p.country)
                /\ session' = "none"
           ELSE IF ~SyncSession
           THEN /\ Raises("format_messages", scope, <<>>, max_tokens, "ValueError")
                /\ session' = "none"
           ELSE IF ~db_ok
           THEN /\ Raises("format_messages", scope, <<>>, max_tokens,
                          "OperationalError")
                /\ session' = "open"
           ELSE \E fetched \in order_by_timestamp(
                       filter_by(chat_history, scope.user_id, scope.orgn_id,
                                 scope.session_id)) :
                   /\ Reads("format_messages", scope, max_tokens, fetched,
                            Rendered(p.messages, p.country)
                                \o limited(fetched, max_tokens))
                   /\ session' = "closed"

format_messages ==
    \E scope \in scopes, max_tokens \in Budgets, p \in prompts :
    \E db_ok \in IF p.memory THEN query_ok ELSE {TRUE} :
        /\ prompt' = p
        /\ IF ~p.memory
           THEN /\ RenderOnto("format_messages", scope, max_tokens, <<>>, <<>>,
                              p.messages, p.country)
                /\ session' = "none"
           ELSE IF ~SyncSession
           THEN /\ Raises("format_messages", scope, <<>>, max_tokens, "ValueError")
                /\ session' = "none"
           ELSE IF ~db_ok
           THEN /\ Raises("format_messages", scope, <<>>, max_tokens,
                          "OperationalError")
                /\ session' = "open"
           ELSE \E fetched \in order_by_timestamp(
                       filter_by(chat_history, scope.user_id, scope.orgn_id,
                                 scope.session_id)) :
                   /\ RenderOnto("format_messages", scope, max_tokens, fetched,
                                 limited(fetched, max_tokens), p.messages,
                                 p.country)
                   /\ session' = "closed"

----------------------------------------------------------------------------
(* ChatOpenAI methods.  generate_response and async_generate_response run  *)
(* to their end in one step; the two stream methods are generators, whose  *)
(* body runs from one yield to the next each time the caller asks for the  *)
(* next character.                                                         *)

StoreUnchanged ==
    UNCHANGED <<scopes, items, prompts, query_ok, use_local_llm, dialect, SyncSession,
                AsyncSession, chat_history, auto_increment, clock, call, raised,
                returned, history, before, session, prompt, tx, chain>>

\* except Exception as e that lets the generator end as if exhausted.
ExceptSuppressed(l, e) ==
    [l EXCEPT !.pc = "returned"]

\* except Exception as e: raise RuntimeError(f"Failed to ...: {e}")
Except(l, e) ==
    [l EXCEPT !.pc = "raised", !.raised = "RuntimeError",
              !.message = Prefix(l.op) \o e]

\* create(...), then return chat_completion.choices[0].message.content
GenerateOutcome(l) ==
    LET tried == [l EXCEPT !.attempts = l.attempts + 1]
    IN  IF l.create_error # "None" THEN Except(tried, l.create_error)
        ELSE IF l.completion = "no_choices" THEN Except(tried, IndexErrorText)
        ELSE [tried EXCEPT !.pc = "returned", !.returned = l.completion]

\* The generator body from where it stands to its next yield, its end or
\* the exception it raises.
RECURSIVE StreamOutcome(_)
StreamOutcome(l) ==
    IF l.pc = "created"
    THEN LET tried == [l EXCEPT !.attempts = l.attempts + 1, !.pc = "running"]
         IN  IF l.create_error # "None" THEN Except(tried, l.create_error)
             ELSE StreamOutcome(tried)
    ELSE IF l.content # <<>>
    THEN [l EXCEPT !.pc = "suspended",
                   !.yielded = Append(l.yielded, Head(l.content)),
                   !.content = Tail(l.content)]
    ELSE IF l.chunk = Len(l.stream)
    THEN [l EXCEPT !.pc = "returned"]
    ELSE LET c    == l.stream[l.chunk + 1]
             next == [l EXCEPT !.chunk = l.chunk + 1]
         IN  IF c.kind # "delta" THEN Except(next, c.cause)
             ELSE IF ~l.get THEN Except(next, NoGetText)
             ELSE StreamOutcome([next EXCEPT !.content = c.content])

generate_response ==
    \E create_error \in Causes \cup {"None"}, completion \in Completions :
        /\ llm' = GenerateOutcome(
                      LLMCall("generate_response", create_error, completion,
                              <<>>, TRUE))
        /\ StoreUnchanged

async_generate_response ==
    \E create_error \in Causes \cup {"None"}, completion \in Completions :
        /\ llm' = GenerateOutcome(
                      LLMCall("async_generate_response", create_error,
                              completion, <<>>, TRUE))
        /\ StoreUnchanged

\* Calling a generator function runs none of its body.
stream_response ==
    \E create_error \in Causes \cup {"None"}, stream \in Streams,
       get \in BOOLEAN :
        /\ llm' = LLMCall("stream_response", create_error, "None", stream, get)
        /\ StoreUnchanged

async_stream_response ==
    \E create_error \in Causes \cup {"None"}, stream \in Streams,
       get \in BOOLEAN :
        /\ llm' = LLMCall("async_stream_response", create_error, "None",
                          stream, get)
        /\ StoreUnchanged

\* The caller's for / async for asks the generator for the next character.
NextChar ==
    /\ llm.op \in {"stream_response", "async_stream_response"}
    /\ llm.pc \in {"created", "suspended"}
    /\ llm' = StreamOutcome(llm)
    /\ StoreUnchanged

----------------------------------------------------------------------------

Next ==
    \/ Tick
    \/ create_sync_engine
    \/ create_async_engine
    \/ add_message
    \/ add_messages
    \/ get_history
    \/ get_messages_with_token_limit
    \/ clear_history
    \/ aadd_message
    \/ aadd_messages
    \/ aget_history
    \/ aget_messages_with_token_limit
    \/ aclear_history
    \/ format_messages

Spec == Init /\ [][Next]_vars

SpecScopes == ScopesInit /\ [][Next]_vars

SpecPrompts == PromptsInit /\ [][Next]_vars

\* A ChatOpenAI client next to a store that no one calls.
LLMInit ==
    /\ scopes = {Scope("u1", "o1", "s1")}
    /\ items = {}
    /\ prompts = {}
    /\ query_ok = {TRUE}
    /\ use_local_llm = FALSE
    /\ SyncSession = TRUE
    /\ AsyncSession = FALSE
    /\ dialect \in {"sqlite_memory", "mysql"}
    /\ Constructed

NextLLM ==
    \/ generate_response
    \/ stream_response
    \/ async_generate_response
    \/ async_stream_response
    \/ NextChar

SpecLLM == LLMInit /\ [][NextLLM]_vars

----------------------------------------------------------------------------
(* Properties. *)

IsPrefix(s, t) == Len(s) <= Len(t) /\ s = SubSeq(t, 1, Len(s))

IsSuffix(s, t) == Len(s) <= Len(t) /\ s = SubSeq(t, Len(t) - Len(s) + 1, Len(t))

\* Tokens of the first k records of a fetched list.
RECURSIVE TokensOfFirst(_, _)
TokensOfFirst(records, k) ==
    IF k = 0 THEN 0
    ELSE TokensOfFirst(records, k - 1) + _count_tokens(records[k].content)

Returned(op) == call.op = op /\ raised = "None"

\* C1: get_history returns the scope's {role, content} pairs in the order
\* they were appended, also when rows carry the same timestamp.
C1_HistoryInAppendOrder ==
    Returned("get_history") => returned = Dicts(RowsOf(chat_history, call.scope))

\* C2: the token-limited read returns the longest prefix of the fetched
\* oldest-first history that stays within max_tokens: every record it
\* includes lands at or below the budget, it is a prefix of the history, and
\* when it stops early the next record would overshoot.
C2_LongestPrefixWithinBudget ==
    Returned("get_messages_with_token_limit") =>
        LET n == Len(returned)
        IN  /\ \A i, j \in 1..Len(history) :
                   i < j => history[i].timestamp <= history[j].timestamp
            /\ IsPrefix(returned, Dicts(history))
            /\ \A k \in 1..n : TokensOfFirst(history, k) <= call.max_tokens
            /\ n < Len(history) =>
                   TokensOfFirst(history, n + 1) > call.max_tokens

\* The read stopped at an overshooting record after a record that landed
\* exactly on the budget, and a later record would still have fitted.
C2_Witness ==
    /\ Returned("get_messages_with_token_limit")
    /\ Len(history) = 3
    /\ Len(returned) = 1
    /\ call.max_tokens > 0
    /\ TokensOfFirst(history, 1) = call.max_tokens
    /\ _count_tokens(history[3].content) = 0

\* C3 as stated: the history part of a composed prompt is the most recent
\* messages within the budget, a suffix of the scope's history.
C3_PromptHistoryIsSuffix ==
    Returned("format_messages") =>
        IsSuffix(SubSeq(returned, 1, Len(returned) - Len(prompt.messages)),
                 Dicts(history))

\* C3 amended: the history part of a composed prompt is the oldest messages
\* within the budget, a prefix of the scope's history, oldest first, and the
\* first message left out is one the budget has no room for.
C3_PromptHistoryIsOldestPrefix ==
    Returned("format_messages") =>
        LET part == SubSeq(returned, 1, Len(returned) - Len(prompt.messages))
        IN  /\ IsPrefix(part, Dicts(history))
            /\ \A i, j \in 1..Len(history) :
                   i < j => history[i].timestamp <= history[j].timestamp
            /\ Len(part) > 0 =>
                   TokensOfFirst(history, Len(part)) <= call.max_tokens
            /\ Len(part) < Len(history) =>
                   TokensOfFirst(history, Len(part) + 1) > call.max_tokens

\* A prompt whose history part is the oldest message only, the newer ones
\* being left out.
C3_Witness ==
    /\ Returned("format_messages")
    /\ Len(history) = 3
    /\ Len(returned) = 1 + Len(prompt.messages)
    /\ returned[1] = Dicts(history)[1]
    /\ history[1].timestamp < history[3].timestamp

\* C4: with max_tokens <= 0 the token-limited read returns an empty
\* sequence, whatever the history holds.
C4_NoBudgetNoMessages ==
    (Returned("get_messages_with_token_limit") /\ call.max_tokens <= 0)
        => returned = <<>>

\* On the list one read fetched, the results of the token loop for growing
\* budgets are nested prefixes.
MonotonicOnFetched ==
    Returned("get_messages_with_token_limit") =>
        \A n \in Budgets :
            /\ n <= call.max_tokens => IsPrefix(limited(history, n), returned)
            /\ n >= call.max_tokens => IsPrefix(returned, limited(history, n))

\* C5: the token-limited read is monotonic in the budget: of two reads of
\* one scope, one right after the other on an unchanged table, the result
\* of the read with the smaller budget is a prefix of the result of the
\* read with the larger one (with equal budgets each is a prefix of the
\* other).
C5_MonotonicInBudget ==
    [][ ( /\ call.op = "get_messages_with_token_limit"
          /\ raised = "None"
          /\ call'.op = "get_messages_with_token_limit"
          /\ raised' = "None"
          /\ call'.scope = call.scope
          /\ chat_history' = chat_history )
        => /\ call.max_tokens <= call'.max_tokens
                => IsPrefix(returned, returned')
           /\ call'.max_tokens <= call.max_tokens
                => IsPrefix(returned', returned) ]_vars

\* Two budgets with different non-empty results on one history.
C5_Witness ==
    /\ Returned("get_messages_with_token_limit")
    /\ Len(returned) = 2
    /\ \E n \in Budgets :
          /\ n < call.max_tokens
          /\ Len(limited(history, n)) = 1

BatchOps == {"add_messages", "aadd_messages"}

SyncOps ==
    {"add_message", "add_messages", "get_history",
     "get_messages_with_token_limit", "clear_history", "format_messages"}

AsyncOps ==
    {"aadd_message", "aadd_messages", "aget_history",
     "aget_messages_with_token_limit", "aclear_history"}

Initialized(op) == IF op \in AsyncOps THEN AsyncSession ELSE SyncSession

\* The errors the first failing step of a batch can raise: the
\* AttributeError of the loop, or else the error of a statement the server
\* refuses or of a row the table refuses.
FirstFailure(messages) ==
    IF \E i \in 1..Len(messages) : messages[i].cls = "str"
    THEN {"AttributeError"}
    ELSE IF \E i \in 1..Len(messages) : messages[i].role = "None"
    THEN {"IntegrityError", "OperationalError"}
    ELSE {"OperationalError"}

\* C6: add_messages and aadd_messages are all-or-nothing: a call that fails
\* leaves the table as it was and raises the error of the step that failed;
\* a call that returns has added one row per message, in batch order, after
\* the rows that were there.
C6_BatchAllOrNothing ==
    (call.op \in BatchOps /\ Initialized(call.op)) =>
        IF raised # "None"
        THEN /\ chat_history = before
             /\ raised \in FirstFailure(call.messages)
        ELSE /\ Len(chat_history) = Len(before) + Len(call.messages)
             /\ IsPrefix(before, chat_history)
             /\ \A i \in 1..Len(call.messages) :
                   LET row == chat_history[Len(before) + i]
                   IN  /\ row.role = call.messages[i].role
                       /\ row.content = call.messages[i].content
                       /\ Scope(row.user_id, row.orgn_id, row.session_id)
                              = call.scope

\* A batch whose first message is sound and whose second the table refuses,
\* on a table that already holds rows.
C6_Witness ==
    /\ call.op \in BatchOps
    /\ raised = "IntegrityError"
    /\ Len(call.messages) = 2
    /\ call.messages[1].role # "None"
    /\ before # <<>>
    /\ chat_history = before

\* C7: no cross-scope leakage: a read on scope S fetches and returns only
\* rows appended with S, and add_message, add_messages and clear_history on
\* S leave the rows of every other scope as they were.
C7_NoCrossScopeLeakage ==
    /\ (call.op \in {"get_history", "get_messages_with_token_limit"}
            /\ raised = "None") =>
           /\ \A i \in 1..Len(history) :
                 /\ Scope(history[i].user_id, history[i].orgn_id,
                          history[i].session_id) = call.scope
                 /\ \E j \in 1..Len(before) : before[j] = history[i]
           /\ IsPrefix(returned, Dicts(history))
    /\ call.op \in {"add_message", "add_messages", "clear_history"} =>
           \A S \in scopes :
               S # call.scope => RowsOf(chat_history, S) = RowsOf(before, S)

\* A read on a scope with rows while the scope that differs from it in one
\* component holds rows too.
C7_Witness ==
    /\ Returned("get_history")
    /\ history # <<>>
    /\ \E S \in scopes : S # call.scope /\ RowsOf(chat_history, S) # <<>>

\* C8: after a clear_history(S) that returned, get_history(S) returns an
\* empty sequence; a clear_history on a scope without rows leaves the table
\* as it was and raises nothing of its own (only a commit the database does
\* not acknowledge can fail it).
C8_ClearThenEmpty ==
    (call.op = "clear_history" /\ SyncSession) =>
        /\ raised = "None" =>
               \A h \in order_by_timestamp(RowsOf(chat_history, call.scope)) :
                   Dicts(h) = <<>>
        /\ RowsOf(before, call.scope) = <<>> =>
               /\ chat_history = before
               /\ raised \in {"None", "OperationalError"}

\* A clear of a scope that held rows, the other scope holding rows as well.
C8_Witness ==
    /\ Returned("clear_history")
    /\ RowsOf(before, call.scope) # <<>>
    /\ chat_history # <<>>

\* C9: a blocking method called without a sync connection and a
\* non-blocking method called without an async connection raises the
\* not-initialized ValueError, returns nothing and leaves the table as it
\* was, whether or not the other mode is configured (a template without a
\* memory calls no method of the store).
C9_UninitializedModeFails ==
    ( /\ call.op \in SyncOps \cup AsyncOps
      /\ call.op = "format_messages" => prompt.memory
      /\ ~Initialized(call.op) ) =>
        /\ raised = "ValueError"
        /\ returned = <<>>
        /\ chat_history = before

\* A blocking append on a store that has only the async connection.
C9_Witness ==
    /\ call.op = "add_message"
    /\ ~SyncSession
    /\ AsyncSession
    /\ raised = "ValueError"
    /\ chat_history # <<>>

\* C10: on a store with both connections, a row committed by add_message is
\* returned by the aget_history on the same scope that follows it.
C10_BlockingWriteSeenByNonBlockingRead ==
    [][ ( /\ SyncSession /\ AsyncSession
          /\ call.op = "add_message" /\ raised = "None"
          /\ call'.op = "aget_history" /\ call'.scope = call.scope )
        => ( /\ raised' = "None"
             /\ \E i \in 1..Len(returned') :
                   returned'[i] = [role    |-> call.messages[1].role,
                                   content |-> call.messages[1].content] )
      ]_vars

\* C11: every store call has closed the session it created by the time it
\* returns or raises, also when its query or its commit fails: between calls
\* no session is open.
C11_NoSessionLeftOpen ==
    session # "open"

\* C12: format_messages returns what get_messages_with_token_limit gives for
\* the scope and the budget, unchanged and in order, as the leading part of
\* its list, followed by one rendered entry per template message in template
\* order; a template without a memory returns the rendered entries only.
C12_PromptIsMemoryThenTemplate ==
    Returned("format_messages") =>
        LET n == Len(prompt.messages)
            m == Len(returned) - n
        IN  /\ m >= 0
            /\ prompt.memory =>
                   history \in order_by_timestamp(
                       filter_by(before, call.scope.user_id,
                                 call.scope.orgn_id, call.scope.session_id))
            /\ SubSeq(returned, 1, m) =
                   IF prompt.memory THEN limited(history, call.max_tokens)
                   ELSE <<>>
            /\ \A i \in 1..n :
                   /\ returned[m + i].role =
                          IF prompt.messages[i].type = "str" THEN "user"
                          ELSE prompt.messages[i].role
                   /\ returned[m + i].content =
                          Format(prompt.messages[i].template, prompt.country)

\* A prompt of chain.py's two template entries after a memory part that the
\* budget cut short.
C12_Witness ==
    /\ Returned("format_messages")
    /\ prompt.memory
    /\ prompt.messages = TemplateMessages
    /\ Len(returned) = 1 + Len(prompt.messages)
    /\ Len(history) > 1

\* C13: a row that an append persisted keeps its scope, role and content
\* under every later operation and stays in the table until a clear_history
\* on its own scope, which removes every row of that scope and no row of
\* another scope.
C13_RowsKeptUntilCleared ==
    /\ \A i \in 1..Len(before) :
          \/ \E j \in 1..Len(chat_history) : chat_history[j] = before[i]
          \/ /\ Returned("clear_history")
             /\ Scope(before[i].user_id, before[i].orgn_id,
                      before[i].session_id) = call.scope
    /\ Returned("clear_history") =>
          /\ RowsOf(chat_history, call.scope) = <<>>
          /\ \A S \in scopes :
                S # call.scope => RowsOf(chat_history, S) = RowsOf(before, S)

\* A clear that removed the two rows of its scope and kept the row of the
\* scope that differs from it in one component.
C13_Witness ==
    /\ Returned("clear_history")
    /\ Len(RowsOf(before, call.scope)) = 2
    /\ Len(chat_history) = 1

\* C14: the ids of the stored rows are pairwise distinct, and a row inserted
\* by a call has an id greater than the id of every row that was in the
\* table before it, the rows a clear_history has just removed included.
C14_IdsNeverReused ==
    [][ /\ \A i, j \in 1..Len(chat_history') :
              i # j => chat_history'[i].id # chat_history'[j].id
        /\ \A j \in 1..Len(chat_history') :
              (\A i \in 1..Len(chat_history) : chat_history[i] # chat_history'[j])
                  => /\ \A i \in 1..Len(chat_history) :
                            chat_history[i].id < chat_history'[j].id
                     /\ \A i \in 1..Len(before) :
                            before[i].id < chat_history'[j].id
      ]_vars

\* C15: to_chat_history gives a HumanMessage the role "user" and an
\* AIMessage the role "assistant", with the caller's scope, the content
\* unchanged and no timestamp; and the get_history that follows a successful
\* add_message(m, S) returns a history of the rows S held before, with m's
\* {role, content} as one more element at the end.
C15_AppendExtendsHistoryAtEnd ==
    [][ /\ \A m \in items, S \in scopes :
              m.cls \in {"HumanMessage", "AIMessage"} =>
                  LET r == to_chat_history(m, S.user_id, S.orgn_id, S.session_id)
                  IN  /\ r.role = IF m.cls = "HumanMessage" THEN "user"
                                  ELSE "assistant"
                      /\ r.content = m.content
                      /\ Scope(r.user_id, r.orgn_id, r.session_id) = S
                      /\ r.timestamp = Unset
        /\ ( /\ Returned("add_message")
             /\ call'.op = "get_history"
             /\ call'.scope = call.scope
             /\ raised' = "None" )
           => \E h \in order_by_timestamp(RowsOf(before, call.scope)) :
                  returned' = Dicts(h) \o
                      << [role    |-> call.messages[1].role,
                          content |-> call.messages[1].content] >>
      ]_vars

\* C16: on a store with both connections a non-blocking method ends as its
\* blocking counterpart does from the same table with the same arguments:
\* aclear_history removes the rows of the scope, the token-limited read
\* returns the token-limited history, the appends add their rows, and a call
\* fails only where the blocking one fails, leaving the table as it was.
C16_AsyncMatchesSync ==
    (SyncSession /\ AsyncSession) =>
        /\ call.op = "aclear_history" =>
               \/ /\ raised = "None"
                  /\ chat_history = delete(before, call.scope.user_id,
                                           call.scope.orgn_id,
                                           call.scope.session_id)
               \/ raised = "OperationalError" /\ chat_history = before
        /\ call.op = "aget_messages_with_token_limit" =>
               \/ /\ raised = "None"
                  /\ \E h \in order_by_timestamp(RowsOf(before, call.scope)) :
                         returned = limited(h, call.max_tokens)
               \/ raised = "OperationalError" /\ returned = <<>>
        /\ call.op \in {"aadd_message", "aadd_messages"} =>
               IF raised = "None"
               THEN /\ Len(chat_history) = Len(before) + Len(call.messages)
                    /\ IsPrefix(before, chat_history)
                    /\ \A i \in 1..Len(call.messages) :
                          LET row == chat_history[Len(before) + i]
                          IN  /\ row.role = call.messages[i].role
                              /\ row.content = call.messages[i].content
               ELSE /\ chat_history = before
                    /\ raised \in FirstFailure(call.messages)

\* The cause of the first failure the client's answer to the call holds:
\* create raising, a completion or chunk without choices, the stream
\* raising, a delta without get; "None" when the answer holds none.
CauseOf(l) ==
    IF l.create_error # "None" THEN l.create_error
    ELSE IF l.op \in {"generate_response", "async_generate_response"}
    THEN IF l.completion = "no_choices" THEN IndexErrorText ELSE "None"
    ELSE LET bad == { i \in 1..Len(l.stream) :
                        l.stream[i].kind # "delta" \/ ~l.get }
         IN  IF bad = {} THEN "None"
             ELSE LET i == CHOOSE i \in bad : \A j \in bad : i <= j
                  IN  IF l.stream[i].kind # "delta" THEN l.stream[i].cause
                      ELSE NoGetText

\* C19: a call of one of the four response methods whose client fails ends
\* with RuntimeError whose text is the method's prefix followed by the text
\* of the cause, also when characters were yielded before the failure; a
\* call ends normally only when nothing failed; and no call calls create
\* more than once.
C19_FailuresWrappedNotRetried ==
    llm.op \in LLMOps =>
        /\ llm.pc = "returned" => CauseOf(llm) = "None" /\ llm.raised = "None"
        /\ llm.pc = "raised" =>
               /\ CauseOf(llm) # "None"
               /\ llm.raised = "RuntimeError"
               /\ llm.message = Prefix(llm.op) \o CauseOf(llm)
        /\ llm.pc = "suspended" => llm.raised = "None"
        /\ llm.attempts = IF llm.pc = "created" THEN 0 ELSE 1

\* A stream that raised after the caller had received a character.
C19_Witness ==
    /\ llm.op = "stream_response"
    /\ llm.pc = "raised"
    /\ llm.yielded # <<>>
    /\ llm.message = Prefix("stream_response") \o "Request timed out."

----------------------------------------------------------------------------
(* The store methods step by step, for callers that run at the same time.  *)
(* A call waits at one database round trip at a time: the INSERT of each   *)
(* pending row and the COMMIT that session.commit() sends, or the SELECT   *)
(* of a read.  A transaction's rows reach chat_history, the rows other     *)
(* sessions can read, when its COMMIT is executed.                         *)

AppendOps == {"add_message", "add_messages", "aadd_message", "aadd_messages"}

ReadOps == {"get_history", "get_messages_with_token_limit"}

\* What each caller runs: the first appends, the second appends single
\* messages and reads.
OpsOf(w) ==
    IF w = "w1" THEN AppendOps
    ELSE {"add_message", "aadd_message"} \cup ReadOps

SerialUnchanged ==
    UNCHANGED <<scopes, items, prompts, query_ok, use_local_llm, dialect, SyncSession,
                AsyncSession, call, raised, returned, history, before, session,
                prompt, llm, chain>>

\* Every method closing its session only by the statement after the work.
EndSessionNoContext(op, error) ==
    ClosedOnReturn(error)

\* The session when the call ends: add_messages closes it in finally, the
\* non-blocking methods leave async with; the other blocking methods close
\* it by their last statement.
EndSession(op, error) ==
    IF op \in {"add_message", "get_history", "get_messages_with_token_limit",
               "clear_history"}
    THEN ClosedOnReturn(error)
    ELSE "closed"

\* The call of t ends with error ("None": it returns), having stood at pc at.
Ended(t, error, at) ==
    [t EXCEPT !.pc = "done", !.raised = error, !.at = at,
              !.session = EndSession(t.op, error)]

\* An INSERT that every session sees at once (no transaction around it).
AfterInsertAutocommit(table, row) ==
    Append(table, row)

\* The committed table after a transaction's INSERT: as it was.
AfterInsert(table, row) ==
    table

\* The committed table after the COMMIT of w's session.
AfterCommit(table, w) ==
    table \o tx[w].inserted

\* The method up to its first round trip: the sessionmaker check, the
\* session, to_chat_history and session.add for each message.
StartAppend ==
    \E w \in Workers, op \in AppendOps, scope \in scopes, messages \in Batches :
        /\ tx[w].pc = "done"
        /\ op \in OpsOf(w)
        /\ op \in {"add_message", "aadd_message"} => Len(messages) = 1
        /\ LET t == Tx(op, "insert", scope, messages, 0)
               a == AddAll(messages, scope, <<>>)
           IN  tx' = [tx EXCEPT ![w] =
                        IF ~Initialized(op)
                        THEN [Ended(t, "ValueError", "start")
                                 EXCEPT !.session = "none"]
                        ELSE IF a.error # "None"
                        THEN Ended(t, a.error, "start")
                        ELSE t]
        /\ UNCHANGED <<chat_history, auto_increment, clock>>
        /\ SerialUnchanged

\* A blocking read up to its SELECT.  (The non-blocking reads and
\* aclear_history end at session.query, before any round trip: they have no
\* steps to interleave and are the actions of the serial specification.)
StartRead ==
    \E w \in Workers, op \in ReadOps, scope \in scopes :
        /\ tx[w].pc = "done"
        /\ op \in OpsOf(w)
        /\ LET t == Tx(op, "select", scope, <<>>,
                       IF op = "get_messages_with_token_limit" THEN MaxBudget
                       ELSE 0)
           IN  tx' = [tx EXCEPT ![w] =
                        IF ~Initialized(op)
                        THEN [Ended(t, "ValueError", "start")
                                 EXCEPT !.session = "none"]
                        ELSE t]
        /\ UNCHANGED <<chat_history, auto_increment, clock>>
        /\ SerialUnchanged

\* The flush's INSERT of the next pending row.  SQLite lets one transaction
\* write at a time: while another session has written and not committed,
\* the INSERT waits, and when the busy timeout runs out before the other
\* session ends it raises OperationalError (database is locked).  A failed
\* statement or a refused row ends the call: the transaction is rolled back.
Insert ==
    \E w \in Workers, db_ok \in BOOLEAN :
        LET t      == tx[w]
            k      == Len(t.inserted) + 1
            entry  == to_chat_history(t.messages[k], t.scope.user_id,
                                      t.scope.orgn_id, t.scope.session_id)
            id     == NextRowId(chat_history \o t.inserted, auto_increment)
            row    == [entry EXCEPT !.id = id, !.timestamp = clock]
            locked == /\ SQLite
                      /\ \E v \in Workers \ {w} :
                            /\ tx[v].pc \in {"insert", "commit"}
                            /\ tx[v].inserted # <<>>
        IN  /\ t.pc = "insert"
            /\ locked => ~db_ok
            /\ id <= MaxId
            /\ IF ~db_ok
               THEN /\ tx' = [tx EXCEPT ![w] =
                                Ended([t EXCEPT !.locked = locked],
                                      "OperationalError", "insert")]
                    /\ UNCHANGED <<chat_history, auto_increment>>
               ELSE IF ~NotNullOk(entry)
               THEN /\ tx' = [tx EXCEPT ![w] =
                                Ended(t, "IntegrityError", "insert")]
                    /\ UNCHANGED <<chat_history, auto_increment>>
               ELSE /\ tx' = [tx EXCEPT ![w] =
                                [t EXCEPT !.inserted = Append(t.inserted, row),
                                          !.pc = IF k = Len(t.messages)
                                                 THEN "commit" ELSE "insert"]]
                    /\ chat_history' = AfterInsert(chat_history, row)
                    /\ auto_increment' =
                           IF SQLite THEN auto_increment ELSE id
            /\ UNCHANGED clock
            /\ SerialUnchanged

\* The COMMIT of session.commit(), then the way out of the method.
CommitTx ==
    \E w \in Workers, db_ok \in BOOLEAN :
        LET t == tx[w]
        IN  /\ t.pc = "commit"
            /\ IF db_ok
               THEN /\ chat_history' = AfterCommit(chat_history, w)
                    /\ tx' = [tx EXCEPT ![w] =
                                Ended([t EXCEPT !.persisted = TRUE],
                                      "None", "commit")]
               ELSE /\ UNCHANGED chat_history
                    /\ tx' = [tx EXCEPT ![w] =
                                Ended(t, "OperationalError", "commit")]
            /\ UNCHANGED <<auto_increment, clock>>
            /\ SerialUnchanged

\* The SELECT of a blocking read, then the rest of the method.
Select ==
    \E w \in Workers, db_ok \in query_ok :
        LET t == tx[w]
        IN  /\ t.pc = "select"
            /\ IF ~db_ok
               THEN tx' = [tx EXCEPT ![w] =
                             Ended(t, "OperationalError", "select")]
               ELSE \E fetched \in order_by_timestamp(
                           RowsOf(chat_history, t.scope)) :
                       tx' = [tx EXCEPT ![w] =
                                Ended([t EXCEPT
                                         !.fetched = fetched,
                                         !.overlap =
                                            \E v \in Workers \ {w} :
                                               /\ tx[v].pc \in {"insert", "commit"}
                                               /\ tx[v].scope = t.scope
                                               /\ tx[v].inserted # <<>>,
                                         !.returned =
                                            IF t.op = "get_history"
                                            THEN Dicts(fetched)
                                            ELSE limited(fetched, t.max_tokens)],
                                      "None", "select")]
            /\ UNCHANGED <<chat_history, auto_increment, clock>>
            /\ SerialUnchanged

\* The task of a non-blocking append is cancelled while it waits for the
\* database: CancelledError is no Exception, so it passes the except clause
\* of aadd_messages, and async with closes the session.  The transaction is
\* rolled back, unless the wait was for a COMMIT the database had already
\* executed (applied).
Cancel ==
    \E w \in Workers, applied \in BOOLEAN :
        LET t == tx[w]
        IN  /\ t.op \in {"aadd_message", "aadd_messages"}
            /\ t.pc \in {"insert", "commit"}
            /\ applied => t.pc = "commit"
            /\ chat_history' = IF applied THEN AfterCommit(chat_history, w)
                               ELSE chat_history
            /\ tx' = [tx EXCEPT ![w] =
                        Ended([t EXCEPT !.persisted = applied],
                              "CancelledError", t.pc)]
            /\ UNCHANGED <<auto_increment, clock>>
            /\ SerialUnchanged

\* Two scopes that differ in the session, one message, a store with both
\* connections; the clock stands still, so all rows tie on the timestamp.
ConcurrentInit ==
    /\ scopes = {Scope("u1", "o1", "s1"), Scope("u1", "o1", "s2")}
    /\ items = {Message("HumanMessage", "a")}
    /\ prompts = {}
    /\ query_ok = {TRUE}
    /\ use_local_llm = FALSE
    /\ SyncSession = TRUE
    /\ AsyncSession = TRUE
    /\ dialect \in {"sqlite_file", "mysql"}
    /\ Constructed

NextConcurrent ==
    \/ StartAppend
    \/ StartRead
    \/ Insert
    \/ CommitTx
    \/ Select
    \/ Cancel

SpecConcurrent == ConcurrentInit /\ [][NextConcurrent]_vars

RowIds(rows) == { rows[i].id : i \in 1..Len(rows) }

\* C17: add_message and aadd_message calls that run at the same time on
\* different scopes do not affect each other: whatever the interleaving, a
\* step of one call leaves the rows of every other scope as they were, the
\* call that returns has committed exactly one row, its own, a call that
\* fails has committed none, and no call fails because of the transaction
\* a call on another scope has open.
C17_ConcurrentAppendsIndependent ==
    [][ \A w \in Workers :
          ( /\ tx[w].op \in {"add_message", "aadd_message"}
            /\ tx[w].pc \in {"insert", "commit"}
            /\ tx'[w] # tx[w]
            /\ tx'[w].raised # "CancelledError" )
          => /\ IF tx'[w].pc = "done" /\ tx'[w].raised = "None"
                THEN /\ Len(chat_history') = Len(chat_history) + 1
                     /\ IsPrefix(chat_history, chat_history')
                     /\ LET row == chat_history'[Len(chat_history')]
                        IN  /\ Scope(row.user_id, row.orgn_id, row.session_id)
                                   = tx[w].scope
                            /\ row.role = tx[w].messages[1].role
                            /\ row.content = tx[w].messages[1].content
                            /\ tx[w].inserted = <<row>>
                ELSE chat_history' = chat_history
             /\ \A S \in scopes :
                   S # tx[w].scope =>
                       RowsOf(chat_history', S) = RowsOf(chat_history, S)
             /\ (\A v \in Workers \ {w} : tx[v].scope # tx[w].scope)
                   => ~tx'[w].locked
      ]_vars

\* A blocking and a non-blocking append on different scopes have both
\* returned, and the one that wrote its row second committed first.
C17_Witness ==
    /\ tx["w1"].op = "add_message" /\ tx["w2"].op = "aadd_message"
    /\ \A w \in Workers : tx[w].pc = "done" /\ tx[w].raised = "None"
    /\ tx["w1"].scope # tx["w2"].scope
    /\ Len(chat_history) = 2
    /\ chat_history[1].id > chat_history[2].id
    /\ Len(RowsOf(chat_history, tx["w1"].scope)) = 1

\* C18 as stated: when a non-blocking append is cancelled while it waits
\* for the database, the session is closed when CancelledError reaches the
\* caller and no row of the call is persisted.
C18_CancelledAppendPersistsNothing ==
    [][ \A w \in Workers :
          (tx[w].pc # "done" /\ tx'[w].raised = "CancelledError")
          => /\ tx'[w].session = "closed"
             /\ chat_history' = chat_history
      ]_vars

\* C18 amended: the session is closed when CancelledError reaches the
\* caller; a call cancelled while it waits for an INSERT persists no row,
\* and a call cancelled while it waits for the reply to its COMMIT persists
\* either none of its rows or all of them.
C18_CancelledAppendReleasesSession ==
    [][ \A w \in Workers :
          (tx[w].pc # "done" /\ tx'[w].raised = "CancelledError")
          => /\ tx'[w].session = "closed"
             /\ tx[w].pc = "insert" => chat_history' = chat_history
             /\ tx[w].pc = "commit" =>
                   \/ chat_history' = chat_history
                   \/ /\ chat_history' = chat_history \o tx[w].inserted
                      /\ Len(tx[w].inserted) = Len(tx[w].messages)
      ]_vars

\* A batch cancelled while it waited for the INSERT of its second row: the
\* session is closed and the row it had written is not in the table.
C18_Witness ==
    \E w \in Workers :
        /\ tx[w].op = "aadd_messages"
        /\ tx[w].raised = "CancelledError"
        /\ tx[w].at = "insert"
        /\ Len(tx[w].inserted) = 1
        /\ tx[w].session = "closed"
        /\ dialect = "mysql"
        /\ RowIds(chat_history) \cap RowIds(tx[w].inserted) = {}

\* C20: a get_history or get_messages_with_token_limit never fetches some
\* but not all rows of a batch of two or more messages on its scope: of a
\* batch that is in progress or has failed it fetches no row, of a batch
\* that was committed none or all.  (Rows are told apart by id; SQLite hands
\* the ids of a rolled-back batch out again, so there a failed batch is
\* compared only while it is in progress.)
C20_BatchSeenWholeOrNotAtAll ==
    \A r, w \in Workers :
        ( /\ tx[r].op \in ReadOps /\ tx[r].pc = "done" /\ tx[r].raised = "None"
          /\ tx[w].op \in BatchOps /\ Len(tx[w].messages) >= 2
          /\ tx[w].scope = tx[r].scope
          /\ dialect = "mysql" \/ tx[w].pc # "done" \/ tx[w].persisted )
        => LET batch == RowIds(tx[w].inserted)
               seen  == RowIds(tx[r].fetched) \cap batch
           IN  \/ seen = {}
               \/ /\ seen = batch
                  /\ tx[w].persisted
                  /\ Len(tx[w].inserted) = Len(tx[w].messages)

\* A read that ran while a batch on its scope had written rows and not
\* committed fetched nothing, and the batch has committed both rows since.
C20_Witness ==
    \E r, w \in Workers :
        /\ tx[r].op = "get_history" /\ tx[r].pc = "done"
        /\ tx[r].overlap
        /\ tx[r].fetched = <<>>
        /\ tx[w].op \in BatchOps
        /\ tx[w].scope = tx[r].scope
        /\ tx[w].persisted
        /\ Len(RowsOf(chat_history, tx[r].scope)) = 2

----------------------------------------------------------------------------
(* chain.py, run as a script: format_messages, generate_response, then the *)
(* question and the answer stored by one add_message each.  Nothing in the *)
(* script catches an exception, so the first statement that raises ends    *)
(* the run.                                                                *)

\* max_tokens: int = 1000, which chain.py leaves at its default.
DefaultMaxTokens == 1000

\* user_id, orgn_id and session_id of chain.py.
ChainScope == Scope("user123", "org456", "session789")

\* question, the user entry of the template and the content of human_message.
question == "q"

\* A script that goes on to its next statement after an exception.
UncaughtIgnored(c, at, error, next) ==
    [c EXCEPT !.pc = next,
              !.failed_at = IF error = "None" THEN @ ELSE at]

\* The script after the statement at: on to the next one, or ended by the
\* exception no statement of the script catches.
Uncaught(c, at, error, next) ==
    IF error = "None" THEN [c EXCEPT !.pc = next]
    ELSE [c EXCEPT !.pc = "failed", !.failed_at = at]

\* One statement of the script that calls the store.
Statement(op, messages, max_tokens, error, result, fetched, table, counter, state, p, c) ==
    /\ call' = Call(op, ChainScope, messages, max_tokens)
    /\ raised' = error
    /\ returned' = result
    /\ history' = fetched
    /\ before' = chat_history
    /\ chat_history' = table
    /\ auto_increment' = counter
    /\ session' = state
    /\ prompt' = p
    /\ chain' = c
    /\ UNCHANGED <<scopes, items, prompts, query_ok, use_local_llm, dialect, SyncSession,
                   AsyncSession, clock, llm, tx>>

\* python chain.py once more: a new process, and with the in-memory SQLite
\* database of the base Config a new, empty database.
chain_run ==
    /\ chain.pc \in {"done", "failed"}
    /\ chat_history' = IF dialect = "sqlite_memory" THEN <<>> ELSE chat_history
    /\ auto_increment' = IF dialect = "sqlite_memory" THEN 0 ELSE auto_increment
    /\ chain' = Script("format_messages", "None", chat_history', <<>>, "None")
    /\ UNCHANGED <<scopes, items, prompts, query_ok, use_local_llm, dialect, SyncSession,
                   AsyncSession, clock, call, raised, returned, history,
                   before, session, prompt, llm, tx>>

\* formatted_messages = template.format_messages(user_id=..., orgn_id=...,
\* session_id=..., country=...)
chain_format_messages ==
    /\ chain.pc = "format_messages"
    /\ \E db_ok \in query_ok :
        IF ~db_ok
        THEN Statement("format_messages", <<>>, DefaultMaxTokens,
                       "OperationalError", <<>>, <<>>, chat_history,
                       auto_increment, "open", ChainPrompt,
                       Uncaught(chain, "format_messages", "OperationalError",
                                "generate_response"))
        ELSE \E fetched \in order_by_timestamp(RowsOf(chat_history, ChainScope)) :
             LET formatted_messages ==
                     limited(fetched, DefaultMaxTokens)
                         \o Rendered(ChainPrompt.messages, ChainPrompt.country)
             IN  Statement("format_messages", <<>>, DefaultMaxTokens, "None",
                           formatted_messages, fetched, chat_history,
                           auto_increment, "closed", ChainPrompt,
                           Uncaught([chain EXCEPT !.formatted_messages =
                                                      formatted_messages],
                                    "format_messages", "None",
                                    "generate_response"))

\* response = llm.generate_response(formatted_messages)
chain_generate_response ==
    /\ chain.pc = "generate_response"
    /\ \E create_error \in Causes \cup {"None"}, completion \in Completions :
        LET l == GenerateOutcome(
                     LLMCall("generate_response", create_error, completion,
                             <<>>, TRUE))
        IN  /\ llm' = l
            /\ chain' = Uncaught([chain EXCEPT !.response = l.returned],
                                 "generate_response", l.raised, "add_question")
    /\ UNCHANGED <<scopes, items, prompts, query_ok, use_local_llm, dialect, SyncSession,
                   AsyncSession, chat_history, auto_increment, clock, call,
                   raised, returned, history, before, session, prompt, tx>>

\* human_message = HumanMessage(question); chat_memory.add_message(...)
chain_add_question ==
    /\ chain.pc = "add_question"
    /\ IdsLeft(1)
    /\ \E db \in Answers(1) :
        LET human_message == Message("HumanMessage", question)
            outcome == AddMessageOutcome(human_message, ChainScope, db)
        IN  Statement("add_message", <<human_message>>, 0, outcome.error, <<>>,
                      <<>>, outcome.table, outcome.counter,
                      ClosedOnReturn(outcome.error), NoPrompt,
                      Uncaught(chain, "add_question", outcome.error,
                               "add_answer"))

\* ai_message = AIMessage(response); chat_memory.add_message(...)
chain_add_answer ==
    /\ chain.pc = "add_answer"
    /\ IdsLeft(1)
    /\ \E db \in Answers(1) :
        LET ai_message == Message("AIMessage", chain.response)
            outcome == AddMessageOutcome(ai_message, ChainScope, db)
        IN  Statement("add_message", <<ai_message>>, 0, outcome.error, <<>>,
                      <<>>, outcome.table, outcome.counter,
                      ClosedOnReturn(outcome.error), NoPrompt,
                      Uncaught(chain, "add_answer", outcome.error, "done"))

\* chain.py's own scope and store (db_url only), on either database, which
\* may fail a SELECT.
ChainInit ==
    /\ scopes = {ChainScope}
    /\ items = {Message("HumanMessage", question)}
    /\ prompts = {ChainPrompt}
    /\ query_ok = BOOLEAN
    /\ use_local_llm = FALSE
    /\ SyncSession = TRUE
    /\ AsyncSession = FALSE
    /\ dialect \in {"sqlite_memory", "mysql"}
    /\ Constructed

NextChain ==
    \/ Tick
    \/ chain_run
    \/ chain_format_messages
    \/ chain_generate_response
    \/ chain_add_question
    \/ chain_add_answer

SpecChain == ChainInit /\ [][NextChain]_vars

\* The row an add_message of the exchange stores.
Stored(row, role, content) ==
    /\ row.user_id = ChainScope.user_id
    /\ row.orgn_id = ChainScope.orgn_id
    /\ row.session_id = ChainScope.session_id
    /\ row.role = role
    /\ row.content = content

\* table is start with the rows of tail appended after it.
Extends(table, start, n) ==
    /\ Len(table) = Len(start) + n
    /\ SubSeq(table, 1, Len(start)) = start
    /\ \A i \in 1..Len(start) : table[Len(start) + 1].id > start[i].id

\* C21: in one run of chain.py the prompt is the token-limited history of
\* the scope as stored when the run started, followed by the rendered
\* template; a run that reaches its end has appended to the stored rows
\* exactly the user row of the question and then, with a larger id, the
\* assistant row of the response; a run ended by generate_response has
\* appended nothing; and a run ended by the second add_message has appended
\* the user row alone.
C21_ExchangeAppendsQuestionThenAnswer ==
    /\ chain.pc \in {"generate_response", "add_question", "add_answer", "done"}
       \/ chain.failed_at \in {"generate_response", "add_question", "add_answer"}
       => \E fetched \in order_by_timestamp(RowsOf(chain.start, ChainScope)) :
              chain.formatted_messages =
                  Dicts(fetched) \o Rendered(TemplateMessages, ChainPrompt.country)
    /\ chain.pc = "done"
       => /\ Extends(chat_history, chain.start, 2)
          /\ Stored(chat_history[Len(chain.start) + 1], "user", question)
          /\ Stored(chat_history[Len(chain.start) + 2], "assistant",
                    chain.response)
          /\ chat_history[Len(chain.start) + 1].id
                 < chat_history[Len(chain.start) + 2].id
    /\ chain.failed_at \in {"format_messages", "generate_response",
                            "add_question"}
       => chat_history = chain.start
    /\ chain.failed_at = "add_answer"
       => /\ Extends(chat_history, chain.start, 1)
          /\ Stored(chat_history[Len(chain.start) + 1], "user", question)

\* A run that started on a stored history and reached its end.
C21_Witness ==
    /\ chain.pc = "done"
    /\ chain.start # <<>>
    /\ Len(chain.formatted_messages) > Len(TemplateMessages)

\* The blocking reads and the template call that reads through its memory.
PureReads == {"get_history", "get_messages_with_token_limit", "format_messages"}

\* C22: a get_history, get_messages_with_token_limit or format_messages call
\* leaves the table as it was when the call started, and a call that repeats
\* the read before it, with the same arguments and nothing written in
\* between, returns the same sequence.
C22_ReadsPureAndRepeatable ==
    [][ /\ call'.op \in PureReads => chat_history' = before'
        /\ ( /\ call.op \in PureReads
             /\ raised = "None"
             /\ call' = call
             /\ prompt' = prompt
             /\ raised' = "None"
             /\ chat_history' = chat_history )
           => returned' = returned ]_vars
====
